---- MODULE Spec2Model ----
(***************************************************************************)
(* jamf_login_log: the login-window log watcher (JamfLogSource and         *)
(* JamfLogWindow of the payload script), the launch agent reconciler       *)
(* (module level of jamf_login_log_launchagent.py) and the teardown tool   *)
(* (remove_launch_agent.py).                                               *)
(*                                                                         *)
(* Text is a sequence of one-character strings.  The watched file is a     *)
(* sequence of bytes: an ASCII byte is written as its character, and the   *)
(* two bytes of U+00E9 are written "C3" and "A9" (decoded: "E9").          *)
(***************************************************************************)
EXTENDS Integers, Sequences, FiniteSets, TLC

VARIABLES
    \* ---- watcher (payload script) ----
    fileBytes,              \* everything the writer appends to the watched file
    log_file_data,          \* JamfLogSource.log_file_data  (texts)
    log_file_color,         \* JamfLogSource.log_file_color (colors)
    last_line_is_partial,   \* JamfLogSource.last_line_is_partial
    file_handle,            \* JamfLogWindow.file_handle: [open, offset]
    update_timer,           \* JamfLogWindow.update_timer: TRUE when scheduled
    watchStarts,            \* history: number of watchLogFile_ calls so far
    delivered,              \* history: text handed to the line loop since the last watch-start
    lastRead,               \* history: what the last refreshLog did
    lastStop,               \* history: how the last stopWatching ended, "none" once a watch is on
    sysinfo,                \* what the system answers the three lookups with
    computer_name,          \* JamfLogWindow.computer_name's string value
    jamf_command,           \* JamfLogWindow.jamf_command's string
    network,                \* JamfLogWindow.network's string: [unknown, lines]
    \* ---- reconciler (jamf_login_log_launchagent.py, module level) ----
    pc,                     \* the statement the script is at
    launch_agent_file,      \* the file at launch_agent_file: [exists, content, owner, mode]
    log_script_file,        \* the file at log_script_file: [exists, content, owner, mode]
    support_dir,            \* os.path.dirname(log_script_file) exists
    umask_mode,             \* mode the process's umask gives a file it creates
    existing_launch_agent,  \* the script's variable of that name
    existing_script,        \* the script's variable of that name
    issued,                 \* launchctl commands run by this run, in order
    exit_status,            \* exit status of the run that ended last
    runs,                   \* history: number of runs started
    rewrites,               \* history: per run, the writes of the descriptor file
    run_start,              \* history: per run, the descriptor file when it started
    killed_at,              \* history: where a run was last killed, "" if none was
    \* ---- teardown tool (remove_launch_agent.py) ----
    td_pc,                  \* the statement main() is at
    arguments,              \* argparse result: agent_name, agent_domain, agent_directory
    dscl,                   \* the directory service: [listing, readable]
    files,                  \* the record files on disk, by path
    mobile_users,           \* main's list of LocalUser objects
    user_i,                 \* index of the user the for loop is at
    cmd_i,                  \* index of the command the inner for loop is at
    td_launch_agent_dict,   \* main's launch_agent_dict
    events,                 \* history: commands run and files unlinked, in order
    at_start,               \* history: the record files and arguments when the tool started
    td_exit_status,         \* exit status of the tool, -1 while it runs
    \* ---- parseLineAttr_ on its own ----
    parse_in,               \* the parts the line is made of
    parse_out               \* what parseLineAttr_ returned: [done, text, color]

logVars == <<fileBytes, log_file_data, log_file_color, last_line_is_partial,
             file_handle, update_timer, watchStarts, delivered, lastRead, lastStop,
             sysinfo, computer_name, jamf_command, network>>

applyVars == <<pc, launch_agent_file, log_script_file, support_dir, umask_mode,
               existing_launch_agent, existing_script, issued, exit_status,
               runs, rewrites, run_start, killed_at>>

tdVars == <<td_pc, arguments, dscl, files, mobile_users, user_i, cmd_i,
            td_launch_agent_dict, events, at_start, td_exit_status>>

parseVars == <<parse_in, parse_out>>

vars == <<logVars, applyVars, tdVars, parseVars>>

----------------------------------------------------------------------------
(* Bounds *)

\* Number of pieces (see Pieces) the watched file is made of, at most.
MaxPieces == 3

\* Number of watchLogFile_ calls in one run of the watcher, at most.
MaxWatchStarts == 2

\* Number of runs of the reconciler in a row, at most.
MaxRuns == 2

\* Number of accounts, besides root, the directory service lists, at most.
MaxUsers == 2

\* Number of attributes in the directive block of a line, at most.
MaxAttrs == 2

----------------------------------------------------------------------------
(* Text helpers: the Python string methods the code calls *)

Range(s) == {s[i] : i \in 1..Len(s)}

\* Index of the first c in s, 0 when there is none (str.find + 1).
IndexOf(s, c) ==
    IF c \in Range(s)
    THEN CHOOSE i \in 1..Len(s) : s[i] = c /\ \A j \in 1..(i-1) : s[j] # c
    ELSE 0

\* s[from:] of Python, from 1-based.
From(s, from) == SubSeq(s, from, Len(s))

\* str.startswith
StartsWith(s, p) == Len(s) >= Len(p) /\ SubSeq(s, 1, Len(p)) = p

\* The characters str.strip() removes.
Whitespace == {" ", "\t", "\n", "\r"}

RECURSIVE LStrip(_)
LStrip(s) == IF s # <<>> /\ Head(s) \in Whitespace THEN LStrip(Tail(s)) ELSE s

RECURSIVE RStrip(_)
RStrip(s) ==
    IF s # <<>> /\ s[Len(s)] \in Whitespace THEN RStrip(SubSeq(s, 1, Len(s)-1)) ELSE s

\* str.strip()
Strip(s) == RStrip(LStrip(s))

UpperLetters == <<"A","B","C","D","E","F","G","H","I","J","K","L","M",
                  "N","O","P","Q","R","S","T","U","V","W","X","Y","Z">>
LowerLetters == <<"a","b","c","d","e","f","g","h","i","j","k","l","m",
                  "n","o","p","q","r","s","t","u","v","w","x","y","z">>

LowerChar(c) ==
    IF c \in Range(UpperLetters) THEN LowerLetters[IndexOf(UpperLetters, c)] ELSE c

\* str.lower()
Lower(s) == [i \in 1..Len(s) |-> LowerChar(s[i])]

\* str.split(sep): always at least one field.
RECURSIVE Split(_, _)
Split(s, sep) ==
    LET k == IndexOf(s, sep)
    IN  IF k = 0 THEN <<s>>
        ELSE <<SubSeq(s, 1, k-1)>> \o Split(From(s, k+1), sep)

\* unicode.splitlines(True): the lines with their terminators; a line ends at
\* "\n", at "\r" or at "\r\n".
RECURSIVE SplitLines(_)
SplitLines(s) ==
    IF s = <<>> THEN <<>>
    ELSE LET brk == {i \in 1..Len(s) : s[i] \in {"\n", "\r"}}
         IN  IF brk = {} THEN <<s>>
             ELSE LET k   == CHOOSE i \in brk : \A j \in brk : i <= j
                      cut == IF s[k] = "\r" /\ k < Len(s) /\ s[k+1] = "\n"
                             THEN k + 1 ELSE k
                  IN  <<SubSeq(s, 1, cut)>> \o SplitLines(From(s, cut+1))

\* str.rstrip(u"\n")
RECURSIVE RStripLF(_)
RStripLF(s) ==
    IF s # <<>> /\ s[Len(s)] = "\n" THEN RStripLF(SubSeq(s, 1, Len(s)-1)) ELSE s

\* str.endswith(u"\n")
EndsWithLF(s) == s # <<>> /\ s[Len(s)] = "\n"

----------------------------------------------------------------------------
(* NSString.initWithData_encoding_(data, NSUTF8StringEncoding) *)

\* The data is UTF-8: every lead byte has its continuation byte and every
\* continuation byte its lead byte.  Otherwise the initialiser returns nil.
Utf8Valid(b) ==
    \A i \in 1..Len(b) :
        /\ b[i] = "C3" => (i < Len(b) /\ b[i+1] = "A9")
        /\ b[i] = "A9" => (i > 1 /\ b[i-1] = "C3")

\* The decoded characters of valid data.
Utf8Text(b) ==
    SelectSeq([i \in 1..Len(b) |-> IF b[i] = "C3" THEN "E9" ELSE b[i]],
              LAMBDA c : c # "A9")

----------------------------------------------------------------------------
(* JamfLogSource *)

\* nsColorForColor_: the NSColor for a color name; white is lightGrayColor and
\* an unknown name is blackColor.
Palette ==
    { <<"b","l","a","c","k">>, <<"b","l","u","e">>, <<"b","r","o","w","n">>,
      <<"c","y","a","n">>, <<"d","a","r","k","g","r","a","y">>, <<"g","r","a","y">>,
      <<"g","r","e","e","n">>, <<"l","i","g","h","t","g","r","a","y">>,
      <<"m","a","g","e","n","t","a">>, <<"o","r","a","n","g","e">>,
      <<"p","u","r","p","l","e">>, <<"r","e","d">>, <<"y","e","l","l","o","w">> }

\* nsColorForColor_ as it would be with whiteColor for white.
nsColorForColor_whiteIsWhite(color) ==
    IF color \in Palette \cup {<<"w","h","i","t","e">>} THEN color
    ELSE <<"b","l","a","c","k">>

nsColorForColor_(color) ==
    IF color = <<"w","h","i","t","e">> THEN <<"l","i","g","h","t","g","r","a","y">>
    ELSE IF color \in Palette THEN color
    ELSE <<"b","l","a","c","k">>

blackColor == <<"b","l","a","c","k">>

\* The body of the for loop of parseLineAttr_ over the attributes left to see:
\* the color after them, starting from color.
RECURSIVE AttrLoop(_, _)
AttrLoop(attrs, color) ==
    IF attrs = <<>> THEN color
    ELSE LET attr == Strip(Head(attrs))
             eq   == IndexOf(attr, "=")
             key   == Lower(Strip(SubSeq(attr, 1, eq-1)))
             value == Lower(Strip(From(attr, eq+1)))
         IN  IF eq # 0 /\ key = <<"c","o","l","o","r">>
             THEN AttrLoop(Tail(attrs), nsColorForColor_(value))
             ELSE AttrLoop(Tail(attrs), color)

\* parseLineAttr_ as it would be without the test for a closing brace:
\* partition gives the whole text as attrStr and no rest when there is none.
parseLineAttr_noBraceCheck(line) ==
    IF StartsWith(line, <<"%", "{">>)
    THEN LET body    == From(line, 3)
             close   == IF "}" \in Range(body) THEN IndexOf(body, "}") ELSE Len(body) + 1
             attrStr == SubSeq(body, 1, close-1)
             rest    == From(body, close+1)
         IN  [text |-> rest, color |-> AttrLoop(Split(attrStr, ","), blackColor)]
    ELSE [text |-> line, color |-> blackColor]

\* parseLineAttr_ as it would be with rpartition: the block ends at the last
\* closing brace.
parseLineAttr_lastBrace(line) ==
    IF StartsWith(line, <<"%", "{">>) /\ "}" \in Range(line)
    THEN LET body    == From(line, 3)
             close   == CHOOSE i \in 1..Len(body) :
                            body[i] = "}" /\ \A j \in (i+1)..Len(body) : body[j] # "}"
             attrStr == SubSeq(body, 1, close-1)
             rest    == From(body, close+1)
         IN  [text |-> rest, color |-> AttrLoop(Split(attrStr, ","), blackColor)]
    ELSE [text |-> line, color |-> blackColor]

\* parseLineAttr_: (rest, color) of a line.
parseLineAttr_(line) ==
    IF StartsWith(line, <<"%", "{">>) /\ "}" \in Range(line)
    THEN LET body    == From(line, 3)
             close   == IndexOf(body, "}")
             attrStr == SubSeq(body, 1, close-1)
             rest    == From(body, close+1)
         IN  [text |-> rest, color |-> AttrLoop(Split(attrStr, ","), blackColor)]
    ELSE [text |-> line, color |-> blackColor]

\* The JamfLogSource instance as one value.
Source == [data    |-> log_file_data,
           color   |-> log_file_color,
           partial |-> last_line_is_partial,
           raised  |-> FALSE]

\* addLine_partial_ as it would be without the replacement of a partial last
\* line: every segment becomes a new entry.
addLine_neverReplaces(src, line, isPartial) ==
    LET p == parseLineAttr_(line)
    IN  [data    |-> src.data \o <<p.text>>,
         color   |-> src.color \o <<p.color>>,
         partial |-> isPartial,
         raised  |-> FALSE]

\* addLine_partial_ as it would be if it joined every segment onto the last
\* entry, whatever the flag says.
addLine_alwaysReplaces(src, line, isPartial) ==
    IF src.data = <<>>
    THEN LET p == parseLineAttr_(line)
         IN  [data    |-> <<p.text>>,
              color   |-> src.color \o <<p.color>>,
              partial |-> isPartial,
              raised  |-> FALSE]
    ELSE LET p == parseLineAttr_(src.data[Len(src.data)] \o line)
         IN  [data    |-> SubSeq(src.data, 1, Len(src.data)-1) \o <<p.text>>,
              color   |-> SubSeq(src.color, 1, Len(src.color)-1) \o <<p.color>>,
              partial |-> isPartial,
              raised  |-> FALSE]

\* addLine_partial_ on the source src.  With the flag set and no text entry,
\* lastObject() is nil and nil + line raises TypeError before anything is changed.
addLine_partial_(src, line, isPartial) ==
    IF src.partial
    THEN IF src.data = <<>>
         THEN [src EXCEPT !.raised = TRUE]
         ELSE LET p == parseLineAttr_(src.data[Len(src.data)] \o line)
              IN  [data    |-> SubSeq(src.data, 1, Len(src.data)-1) \o <<p.text>>,
                   color   |-> SubSeq(src.color, 1, Len(src.color)-1) \o <<p.color>>,
                   partial |-> isPartial,
                   raised  |-> FALSE]
    ELSE LET p == parseLineAttr_(line)
         IN  [data    |-> src.data \o <<p.text>>,
              color   |-> src.color \o <<p.color>>,
              partial |-> isPartial,
              raised  |-> FALSE]

\* removeAllLines: empties the text array, and only it.
removeAllLines(src) == [src EXCEPT !.data = <<>>]

\* lineCount
lineCount(src) == Len(src.data)

----------------------------------------------------------------------------
(* JamfLogWindow.refreshLog, the part that reads the log *)

\* The for loop over utf8string.splitlines(True); an exception ends it.
RECURSIVE LineLoop(_, _)
LineLoop(src, lines) ==
    IF lines = <<>> \/ src.raised THEN src
    ELSE LET line == Head(lines)
         IN  LineLoop(IF EndsWithLF(line)
                      THEN addLine_partial_(src, RStripLF(line), FALSE)
                      ELSE addLine_partial_(src, line, TRUE),
                      Tail(lines))

\* refreshLog on the bytes availableData returned: nothing is done for no data;
\* data that is not UTF-8 gives a nil string, and nil.splitlines raises.
refreshLog(src, data) ==
    IF Len(data) = 0 THEN src
    ELSE IF ~Utf8Valid(data) THEN [src EXCEPT !.raised = TRUE]
    ELSE LineLoop(src, SplitLines(Utf8Text(data)))

----------------------------------------------------------------------------
(* The watched file *)

\* The pieces the watched file is made of: text, a line feed, a color
\* directive, and one two-byte character.
Pieces ==
    { <<"a">>, <<"\n">>, <<"C3", "A9">>,
      <<"%", "{", "c", "o", "l", "o", "r", "=", "r", "e", "d", "}">> }

RECURSIVE Concat(_)
Concat(ps) == IF ps = <<>> THEN <<>> ELSE Head(ps) \o Concat(Tail(ps))

\* Every file of at most MaxPieces pieces.
Files == UNION { { Concat(ps) : ps \in [1..n -> Pieces] } : n \in 0..MaxPieces }

\* Logical lines of a text: the line-feed-terminated lines, plus one for a
\* trailing unterminated line.
NumLogicalLines(text) ==
    Cardinality({i \in 1..Len(text) : text[i] = "\n"})
        + (IF text # <<>> /\ text[Len(text)] # "\n" THEN 1 ELSE 0)

\* The raw text of the last logical line of a text, without its line feed.
LastLineRaw(text) ==
    LET t  == IF EndsWithLF(text) THEN SubSeq(text, 1, Len(text)-1) ELSE text
        lf == {i \in 1..Len(t) : t[i] = "\n"}
        k  == IF lf = {} THEN 0 ELSE CHOOSE i \in lf : \A j \in lf : j <= i
    IN  From(t, k+1)

----------------------------------------------------------------------------
(* JamfLogWindow: watchLogFile_, stopWatching and the timer *)

\* refreshLog calls reloadData and scrollRowToVisible_ when it read data and
\* the line loop ended without an exception; after is the source after the loop.
Rendered_always(after, data) == ~after.raised

Rendered(after, data) == Len(data) # 0 /\ ~after.raised

Decoded(data) == IF Utf8Valid(data) THEN Utf8Text(data) ELSE <<>>

\* A lookup the system does not answer.
Failure == "<failure>"

Unknown == "Unknown"

\* The interfaces State:/Network/Interface lists, and the hardware interfaces
\* SCNetworkInterfaceCopyAll returns: a tunnel interface is not among them.
Interfaces == <<"lo0", "en0", "en1", "utun0">>

copiedInterfaces ==
    << [bsdName |-> "en0", name |-> "Wi-Fi",    mac |-> "aa:aa:aa:aa:aa:aa"],
       [bsdName |-> "en1", name |-> "Ethernet", mac |-> "bb:bb:bb:bb:bb:bb"] >>

\* The first address of the IPv4 state of an interface.
Address(interface) == "10.0.0." \o interface

\* What the system can answer: a computer name or none, a pgrep listing or a
\* non-zero exit, a dynamic store that answers or returns nil, and the
\* interfaces besides lo0 that have an IPv4 state.
SysInfos ==
    [computername : {"Mac01", Failure},
     pgrep        : {"123 jamf", Failure},
     store        : {"ok", "nil"},
     active       : SUBSET {"en0", "en1", "utun0"}]

\* get_sc_computername: any exception gives "Unknown".
get_sc_computername ==
    IF sysinfo.computername = Failure THEN Unknown ELSE sysinfo.computername

\* get_jamf_command: any exception gives "Unknown".
get_jamf_command ==
    IF sysinfo.pgrep = Failure THEN Unknown ELSE sysinfo.pgrep

\* connectedDevices after both loops of get_network_info: a dict for every
\* listed interface with an IPv4 state that is not lo0, with name and mac when
\* a hardware interface has its BSD name.
connectedDevices ==
    LET listed == SelectSeq(Interfaces,
                            LAMBDA i : i # "lo0" /\ i \in sysinfo.active)
        hw(i)  == {h \in Range(copiedInterfaces) : h.bsdName = i}
    IN  [n \in 1..Len(listed) |->
            IF hw(listed[n]) = {}
            THEN [interface |-> listed[n], address |-> Address(listed[n])]
            ELSE LET h == CHOOSE h \in hw(listed[n]) : TRUE
                 IN  [interface |-> listed[n], address |-> Address(listed[n]),
                      name |-> h.name, mac |-> h.mac]]

UnknownNetwork == [unknown |-> TRUE, lines |-> <<>>]

\* get_network_info: [raised, value].  nil from SCDynamicStoreCopyValue has no
\* .get and the AttributeError is not caught; a device without "mac" raises
\* KeyError in the join, which is caught and gives "Unknown".
get_network_info ==
    IF sysinfo.store = "nil" THEN [raised |-> TRUE, value |-> UnknownNetwork]
    ELSE IF \E n \in 1..Len(connectedDevices) : "mac" \notin DOMAIN connectedDevices[n]
    THEN [raised |-> FALSE, value |-> UnknownNetwork]
    ELSE [raised |-> FALSE,
          value  |-> [unknown |-> FALSE,
                      lines   |-> [n \in 1..Len(connectedDevices) |->
                                    [mac       |-> connectedDevices[n].mac,
                                     address   |-> connectedDevices[n].address,
                                     name      |-> connectedDevices[n].name,
                                     interface |-> connectedDevices[n].interface]]]]

\* Lines 565-572 of refreshLog, reached when the part before them raised
\* nothing: the three lookups in turn, each shown when it returns.
\* shown is what the three views show when refreshLog is entered.
RefreshSnapshots(raisedBefore, shown) ==
    IF raisedBefore
    THEN /\ computer_name' = shown.computer_name
         /\ jamf_command' = shown.jamf_command
         /\ network' = shown.network
    ELSE /\ computer_name' = get_sc_computername
         /\ jamf_command' = get_jamf_command
         /\ network' = IF get_network_info.raised THEN shown.network
                       ELSE get_network_info.value

\* What the three views show now.
Shown == [computer_name |-> computer_name, jamf_command |-> jamf_command,
          network |-> network]

\* showLogWindow_: the texts the three views are created with.
showLogWindow_ ==
    [computer_name |-> "Unkown", jamf_command |-> Unknown, network |-> UnknownNetwork]

\* An exception left refreshLog: from the line loop or from get_network_info.
RefreshRaised(src) == src.raised \/ get_network_info.raised

\* What a refreshLog that starts from the source src, reads data and leaves
\* the source after leaves in the history variables.
ReadHistory(src, data, after) ==
    [some          |-> Len(data) > 0,
     valid         |-> Utf8Valid(data),
     partialBefore |-> src.partial,
     countBefore   |-> Len(src.data),
     colorsBefore  |-> Len(src.color),
     linesBefore   |-> NumLogicalLines(delivered),
     rendered      |-> Rendered(after, data),
     lookupRaised  |-> ~after.raised /\ get_network_info.raised]

\* stopWatching: the handle and the timer after it, and whether closeFile
\* raised, which ends the method at line 542.
stopWatching(closeFails) ==
    IF file_handle.open /\ closeFails
    THEN [file_handle |-> file_handle, update_timer |-> update_timer, raised |-> TRUE]
    ELSE [file_handle |-> [open |-> FALSE, offset |-> 0], update_timer |-> FALSE,
          raised |-> FALSE]

\* watchLogFile_, when availableData returns the first k bytes of the file:
\* stopWatching, removeAllLines, a fresh handle at offset 0, one refreshLog,
\* and then the timer, which an exception in refreshLog leaves unscheduled.
\* An exception in stopWatching ends the method before anything else is done.
watchLogFile_(k, closeFails, shown) ==
    IF stopWatching(closeFails).raised
    THEN /\ watchStarts' = watchStarts + 1
         /\ lastStop' = "raised"
         /\ UNCHANGED <<fileBytes, log_file_data, log_file_color, last_line_is_partial,
                        file_handle, update_timer, delivered, lastRead,
                        sysinfo, computer_name, jamf_command, network>>
    ELSE LET data == SubSeq(fileBytes, 1, k)
             src  == refreshLog(removeAllLines(Source), data)
         IN  /\ log_file_data' = src.data
             /\ log_file_color' = src.color
             /\ last_line_is_partial' = src.partial
             /\ file_handle' = [open |-> TRUE, offset |-> k]
             /\ RefreshSnapshots(src.raised, shown)
             /\ update_timer' = ~RefreshRaised(src)
             /\ watchStarts' = watchStarts + 1
             /\ delivered' = Decoded(data)
             /\ lastRead' = [ReadHistory(removeAllLines(Source), data, src) EXCEPT !.linesBefore = 0]
             /\ lastStop' = "none"
             /\ UNCHANGED <<fileBytes, sysinfo>>

\* AppDelegate.applicationDidFinishLaunching_: showLogWindow_ and the one
\* watchLogFile_ call of the program.
applicationDidFinishLaunching_ ==
    /\ watchStarts = 0
    /\ \E k \in 0..Len(fileBytes) : watchLogFile_(k, FALSE, showLogWindow_)

\* The repeating timer fires refreshLog, which reads the k bytes appended
\* since the last read.  An exception ends the callback and not the timer.
TimerFired ==
    /\ update_timer
    /\ file_handle.open
    /\ \E k \in 0..(Len(fileBytes) - file_handle.offset) :
        LET data == SubSeq(fileBytes, file_handle.offset + 1, file_handle.offset + k)
            src  == refreshLog(Source, data)
        IN  /\ log_file_data' = src.data
            /\ log_file_color' = src.color
            /\ last_line_is_partial' = src.partial
            /\ file_handle' = [file_handle EXCEPT !.offset = @ + k]
            /\ RefreshSnapshots(src.raised, Shown)
            /\ delivered' = delivered \o Decoded(data)
            /\ lastRead' = ReadHistory(Source, data, src)
            /\ UNCHANGED <<fileBytes, update_timer, watchStarts, lastStop, sysinfo>>

\* Any caller starting a watch again on the same window.
WatchAgain ==
    /\ watchStarts < MaxWatchStarts
    /\ \E k \in 0..Len(fileBytes), closeFails \in BOOLEAN : watchLogFile_(k, closeFails, Shown)

\* Any caller stopping the watch.
StopWatching ==
    \E closeFails \in BOOLEAN :
        LET after == stopWatching(closeFails)
        IN  /\ file_handle' = after.file_handle
            /\ update_timer' = after.update_timer
            /\ lastStop' = IF after.raised THEN "raised" ELSE "returned"
            /\ UNCHANGED <<fileBytes, log_file_data, log_file_color, last_line_is_partial,
                           watchStarts, delivered, lastRead,
                           sysinfo, computer_name, jamf_command, network>>

NoRead == [some |-> FALSE, valid |-> TRUE, partialBefore |-> FALSE,
           countBefore |-> 0, colorsBefore |-> 0, linesBefore |-> 0,
           rendered |-> FALSE, lookupRaised |-> FALSE]

\* The system answering every lookup, with one hardware interface up.
HealthySystem ==
    [computername |-> "Mac01", pgrep |-> "123 jamf", store |-> "ok", active |-> {"en0"}]

\* The window and its source as constructed, before the watch starts.
WindowStart ==
    /\ log_file_data = <<>>
    /\ log_file_color = <<>>
    /\ last_line_is_partial = FALSE
    /\ file_handle = [open |-> FALSE, offset |-> 0]
    /\ update_timer = FALSE
    /\ watchStarts = 0
    /\ delivered = <<>>
    /\ lastRead = NoRead
    /\ lastStop = "none"
    /\ computer_name = ""
    /\ jamf_command = ""
    /\ network = [unknown |-> FALSE, lines |-> <<>>]

\* Any watched file, on a system that answers the lookups or whose dynamic
\* store returns nil.
LogStart ==
    /\ fileBytes \in Files
    /\ sysinfo \in {HealthySystem, [HealthySystem EXCEPT !.store = "nil"]}
    /\ WindowStart

\* A watched file of plain text and line feeds, on a system that answers.
ApiStart ==
    /\ fileBytes \in UNION { { Concat(ps) : ps \in [1..n -> {<<"a">>, <<"\n">>}] }
                                : n \in 0..MaxPieces }
    /\ sysinfo = HealthySystem
    /\ WindowStart

\* A short watched file, on any system.
SnapshotStart ==
    /\ fileBytes \in {<<>>} \cup Pieces
    /\ sysinfo \in SysInfos
    /\ WindowStart

LogIdle ==
    /\ fileBytes = <<>>
    /\ sysinfo = HealthySystem
    /\ WindowStart

----------------------------------------------------------------------------
(* The reconciler: jamf_login_log_launchagent.py, top to bottom *)

launch_agent_label == "com.github.primalcurve.jamf_login_log"

\* launch_agent_dict, the desired descriptor.
launch_agent_dict ==
    [Label                  |-> launch_agent_label,
     ProgramArguments       |-> <<"system_python", "log_script_file">>,
     LimitLoadToSessionType |-> <<"LoginWindow">>,
     RunAtLoad              |-> TRUE,
     KeepAlive              |-> FALSE,
     StandardOutPath        |-> "launch_agent_out_path",
     StandardErrorPath      |-> "launch_agent_out_path"]

\* A descriptor an earlier version of the agent left on disk.
other_agent_dict == [launch_agent_dict EXCEPT !.KeepAlive = TRUE]

PlistKeys == <<"KeepAlive", "Label", "LimitLoadToSessionType", "ProgramArguments",
               "RunAtLoad", "StandardErrorPath", "StandardOutPath">>

\* plistlib.writePlist: the key/value pairs of the dictionary, keys sorted.
writePlist(d) ==
    LET keys == SelectSeq(PlistKeys, LAMBDA k : k \in DOMAIN d)
    IN  [i \in 1..Len(keys) |-> <<keys[i], d[keys[i]]>>]

\* plistlib.readPlist of a complete file: the dictionary of its pairs.
readPlist(content) ==
    [k \in {content[i][1] : i \in 1..Len(content)} |->
        (CHOOSE pair \in Range(content) : pair[1] = k)[2]]

\* A file that was opened for writing and not written yet holds no plist, and
\* readPlist raises on it.
Truncated == <<>>

\* log_script, the payload script, and another content of the script file.
log_script == "log_script"
other_script == "older log_script"

\* uid and gid of root, and any other owner.
root == "root"

NoFile == [exists |-> FALSE, content |-> Truncated, owner |-> root, mode |-> "----"]

None == [kind |-> "None"]
Value(v) == [kind |-> "value", value |-> v]

\* import subprocess: the module imports os, pwd, sys and plistlib only, and
\* the name subprocess is bound in the text of log_script alone.
subprocessImported == FALSE

\* launchctl_list
launchctl_list ==
    << <<"bootstrap", "loginwindow", "launch_agent_file">>,
       <<"enable", "loginwindow/" \o launch_agent_label>>,
       <<"kickstart", "-k", "loginwindow/" \o launch_agent_label>> >>

ApplyIdle ==
    /\ pc = "idle"
    /\ launch_agent_file = NoFile
    /\ log_script_file = NoFile
    /\ support_dir = TRUE
    /\ umask_mode = "0644"
    /\ existing_launch_agent = None
    /\ existing_script = None
    /\ issued = <<>>
    /\ exit_status = 0
    /\ runs = 0
    /\ rewrites = <<>>
    /\ run_start = <<>>
    /\ killed_at = ""

\* What the disk can hold before the first run: no descriptor, or a complete
\* one (the desired one or another) of any owner and mode; likewise the script.
ApplyStart ==
    /\ pc = "idle"
    /\ launch_agent_file \in {NoFile} \cup
           [exists : {TRUE},
            content : {writePlist(launch_agent_dict), writePlist(other_agent_dict)},
            owner : {root, "other"}, mode : {"0644", "0755"}]
    /\ log_script_file \in {NoFile} \cup
           [exists : {TRUE}, content : {log_script, other_script},
            owner : {root}, mode : {"0644", "0755"}]
    /\ support_dir \in BOOLEAN
    /\ log_script_file.exists => support_dir
    /\ umask_mode \in {"0644", "0600"}
    /\ existing_launch_agent = None
    /\ existing_script = None
    /\ issued = <<>>
    /\ exit_status = 0
    /\ runs = 0
    /\ rewrites = <<>>
    /\ run_start = <<>>
    /\ killed_at = ""

\* The script is started (again).
StartRun ==
    /\ pc \in {"idle", "exited"}
    /\ runs < MaxRuns
    /\ pc' = "read_agent"
    /\ runs' = runs + 1
    /\ rewrites' = Append(rewrites, 0)
    /\ run_start' = Append(run_start, launch_agent_file)
    /\ existing_launch_agent' = None
    /\ existing_script' = None
    /\ issued' = <<>>
    /\ UNCHANGED <<launch_agent_file, log_script_file, support_dir, umask_mode,
                   exit_status, killed_at>>

\* An uncaught exception ends the run with status 1.
Raise ==
    /\ pc' = "exited"
    /\ exit_status' = 1

\* Lines 72-78: read the existing descriptor; readPlist raises on a file that
\* holds no complete plist.
ReadAgent ==
    /\ pc = "read_agent"
    /\ IF launch_agent_file.exists
       THEN IF launch_agent_file.content = Truncated
            THEN Raise /\ UNCHANGED existing_launch_agent
            ELSE /\ existing_launch_agent' = Value(readPlist(launch_agent_file.content))
                 /\ pc' = "compare_agent"
                 /\ UNCHANGED exit_status
       ELSE /\ existing_launch_agent' = None
            /\ pc' = "compare_agent"
            /\ UNCHANGED exit_status
    /\ UNCHANGED <<launch_agent_file, log_script_file, support_dir, umask_mode,
                   existing_script, issued, runs, rewrites, run_start, killed_at>>

\* Lines 81-85 and 96-97: the comparison with launch_agent_dict.
CompareAgent ==
    /\ pc = "compare_agent"
    /\ IF existing_launch_agent # Value(launch_agent_dict)
       THEN /\ existing_launch_agent' = [kind |-> "New"]
            /\ pc' = "open_agent"
       ELSE /\ pc' = "read_script"
            /\ UNCHANGED existing_launch_agent
    /\ UNCHANGED <<launch_agent_file, log_script_file, support_dir, umask_mode,
                   existing_script, issued, exit_status, runs, rewrites, run_start,
                   killed_at>>

\* open(path, "w"): an existing file is emptied and keeps its owner and mode; a
\* new file belongs to the process (root) with the mode the umask leaves.
OpenForWrite(file) ==
    IF file.exists
    THEN [file EXCEPT !.content = Truncated]
    ELSE [exists |-> TRUE, content |-> Truncated, owner |-> root, mode |-> umask_mode]

\* Line 87: open(launch_agent_file, 'wb').
OpenAgent ==
    /\ pc = "open_agent"
    /\ launch_agent_file' = OpenForWrite(launch_agent_file)
    /\ pc' = "write_agent"
    /\ UNCHANGED <<log_script_file, support_dir, umask_mode, existing_launch_agent,
                   existing_script, issued, exit_status, runs, rewrites, run_start,
                   killed_at>>

\* Line 88: plistlib.writePlist(launch_agent_dict, fp), and the file is closed.
WriteAgent ==
    /\ pc = "write_agent"
    /\ launch_agent_file' = [launch_agent_file EXCEPT !.content = writePlist(launch_agent_dict)]
    /\ rewrites' = [rewrites EXCEPT ![runs] = @ + 1]
    /\ pc' = "lchown_agent"
    /\ UNCHANGED <<log_script_file, support_dir, umask_mode, existing_launch_agent,
                   existing_script, issued, exit_status, runs, run_start, killed_at>>

\* Line 92: os.lchown(launch_agent_file, uid, gid).
LchownAgent ==
    /\ pc = "lchown_agent"
    /\ launch_agent_file' = [launch_agent_file EXCEPT !.owner = root]
    /\ pc' = "chmod_agent"
    /\ UNCHANGED <<log_script_file, support_dir, umask_mode, existing_launch_agent,
                   existing_script, issued, exit_status, runs, rewrites, run_start,
                   killed_at>>

\* Line 94: os.chmod(launch_agent_file, 0o644).
ChmodAgent ==
    /\ pc = "chmod_agent"
    /\ launch_agent_file' = [launch_agent_file EXCEPT !.mode = "0644"]
    /\ pc' = "read_script"
    /\ UNCHANGED <<log_script_file, support_dir, umask_mode, existing_launch_agent,
                   existing_script, issued, exit_status, runs, rewrites, run_start,
                   killed_at>>

\* Lines 682-690: read the existing script.
ReadScript ==
    /\ pc = "read_script"
    /\ existing_script' = IF log_script_file.exists
                          THEN Value(log_script_file.content) ELSE None
    /\ pc' = "compare_script"
    /\ UNCHANGED <<launch_agent_file, log_script_file, support_dir, umask_mode,
                   existing_launch_agent, issued, exit_status, runs, rewrites,
                   run_start, killed_at>>

\* Lines 693 and 711-712: the comparison with log_script.
CompareScript ==
    /\ pc = "compare_script"
    /\ pc' = IF existing_script # Value(log_script) THEN "makedirs" ELSE "launchctl"
    /\ UNCHANGED <<launch_agent_file, log_script_file, support_dir, umask_mode,
                   existing_launch_agent, existing_script, issued, exit_status, runs,
                   rewrites, run_start, killed_at>>

\* Lines 696-697: os.makedirs of the script's directory when it is missing.
MakeDirs ==
    /\ pc = "makedirs"
    /\ support_dir' = TRUE
    /\ pc' = "write_script"
    /\ UNCHANGED <<launch_agent_file, log_script_file, umask_mode,
                   existing_launch_agent, existing_script, issued, exit_status, runs,
                   rewrites, run_start, killed_at>>

\* Lines 699-700: the script file is opened, written and closed.
WriteScript ==
    /\ pc = "write_script"
    /\ log_script_file' = [OpenForWrite(log_script_file) EXCEPT !.content = log_script]
    /\ pc' = "lchown_script"
    /\ UNCHANGED <<launch_agent_file, support_dir, umask_mode, existing_launch_agent,
                   existing_script, issued, exit_status, runs, rewrites, run_start,
                   killed_at>>

\* Line 706: os.lchown(log_script_file, uid, gid).
LchownScript ==
    /\ pc = "lchown_script"
    /\ log_script_file' = [log_script_file EXCEPT !.owner = root]
    /\ pc' = "chmod_after_script"
    /\ UNCHANGED <<launch_agent_file, support_dir, umask_mode, existing_launch_agent,
                   existing_script, issued, exit_status, runs, rewrites, run_start,
                   killed_at>>

\* Line 707: os.chmod(launch_agent_file, 0o755): the path given is the
\* descriptor's, and the descriptor file exists by now.
ChmodAfterScript ==
    /\ pc = "chmod_after_script"
    /\ launch_agent_file' = [launch_agent_file EXCEPT !.mode = "0755"]
    /\ pc' = "launchctl"
    /\ UNCHANGED <<log_script_file, support_dir, umask_mode, existing_launch_agent,
                   existing_script, issued, exit_status, runs, rewrites, run_start,
                   killed_at>>

\* Lines 723-730: the loop over launchctl_list and sys.exit(0).  The name
\* subprocess is not bound, so the first subprocess.check_call raises NameError,
\* and so does the except clause that names subprocess.CalledProcessError.
LaunchctlLoop ==
    /\ pc = "launchctl"
    /\ IF subprocessImported
       THEN /\ issued' = launchctl_list
            /\ pc' = "exited"
            /\ exit_status' = 0
       ELSE Raise /\ UNCHANGED issued
    /\ UNCHANGED <<launch_agent_file, log_script_file, support_dir, umask_mode,
                   existing_launch_agent, existing_script, runs, rewrites, run_start,
                   killed_at>>

\* The process is killed (or the machine goes down) before its next statement.
Killed ==
    /\ pc \notin {"idle", "exited"}
    /\ killed_at' = pc
    /\ pc' = "exited"
    /\ exit_status' = 137
    /\ UNCHANGED <<launch_agent_file, log_script_file, support_dir, umask_mode,
                   existing_launch_agent, existing_script, issued, runs, rewrites,
                   run_start>>

----------------------------------------------------------------------------
(* The teardown tool: remove_launch_agent.py *)

\* str.lower() on the values --agent-domain takes here.
StrLower(str) == IF str = "System" THEN "system" ELSE str

\* A descriptor for the user session, and one that names no session type.
aqua_agent_dict == [launch_agent_dict EXCEPT !.LimitLoadToSessionType = <<"Aqua">>]
unscoped_agent_dict ==
    [k \in (DOMAIN launch_agent_dict) \ {"LimitLoadToSessionType"} |-> launch_agent_dict[k]]

\* dict.get(key, default)
DictGet(d, key, default) == IF key \in DOMAIN d THEN d[key] ELSE default

ShortName(i) == "user" \o ToString(i)

\* What dscl -read gives for an account: UniqueID is a string of digits.
DsclRead(shortname) ==
    [UniqueID         |-> IF shortname = "root" THEN "0"
                          ELSE ToString(500 + CHOOSE i \in 1..(MaxUsers + 1) : ShortName(i) = shortname),
     NFSHomeDirectory |-> IF shortname = "root" THEN "/var/root" ELSE "/Users/" \o shortname]

\* process_key_values on one value: the cascade of conversions turns a string
\* int() accepts into an int and leaves a path a string.
process_key_values(key, value) ==
    IF key = "UniqueID" THEN [type |-> "int", text |-> value]
    ELSE [type |-> "str", text |-> value]

Unset == [type |-> "unset", text |-> ""]
Str(text) == [type |-> "str", text |-> text]

\* LocalUser.__init__: the attributes are set when dscl -read succeeds.
LocalUser(shortname) ==
    IF shortname \in dscl.readable
    THEN [shortname          |-> shortname,
          unique_id          |-> process_key_values("UniqueID", DsclRead(shortname).UniqueID),
          nfs_home_directory |-> process_key_values("NFSHomeDirectory",
                                                    DsclRead(shortname).NFSHomeDirectory),
          domain_target      |-> Unset,
          service_target     |-> Unset,
          launch_agent_file  |-> Unset]
    ELSE [shortname          |-> shortname,
          unique_id          |-> Unset,
          nfs_home_directory |-> Unset,
          domain_target      |-> Unset,
          service_target     |-> Unset,
          launch_agent_file  |-> Unset]

\* get_mobile_users: a LocalUser for every listed account not in ignored_users.
ignored_users == {"admin", "root", "daemon", "guest", "nobody"}

get_mobile_users ==
    LET names == SelectSeq(dscl.listing, LAMBDA u : u \notin ignored_users)
    IN  [i \in 1..Len(names) |-> LocalUser(names[i])]

\* str + value raises TypeError unless value is a str, and reading an
\* attribute that was never set raises AttributeError.
CanConcat(value) == value.type = "str"

\* Lines 360-366 for one user.
WithUserTargets(user) ==
    LET domain_target == arguments.agent_domain \o "/" \o user.unique_id.text
    IN  [user EXCEPT
            !.domain_target = Str(domain_target),
            !.service_target = Str(domain_target \o "/" \o arguments.agent_name),
            !.launch_agent_file = Str(user.nfs_home_directory.text \o "/Library/LaunchAgents/"
                                        \o arguments.agent_name \o ".plist")]

SystemRecordPath(name) == "/Library/LaunchAgents/" \o name \o ".plist"

TdRaise ==
    /\ td_pc' = "exited"
    /\ td_exit_status' = 1

\* Lines 347-366: the arguments are parsed and the targets are built.
BuildTargets ==
    /\ td_pc = "build_targets"
    /\ IF StrLower(arguments.agent_domain) = "system"
       THEN /\ mobile_users' =
                 << [LocalUser("root") EXCEPT
                        !.domain_target = Str("system"),
                        !.service_target = Str("system/" \o arguments.agent_name),
                        !.launch_agent_file = Str(SystemRecordPath(arguments.agent_name))] >>
            /\ td_pc' = "read_record"
            /\ UNCHANGED td_exit_status
       ELSE IF \E i \in 1..Len(get_mobile_users) : ~CanConcat(get_mobile_users[i].unique_id)
            THEN TdRaise /\ mobile_users' = get_mobile_users
            ELSE /\ mobile_users' = [i \in 1..Len(get_mobile_users) |->
                                        WithUserTargets(get_mobile_users[i])]
                 /\ td_pc' = IF get_mobile_users = <<>> THEN "exit" ELSE "read_record"
                 /\ UNCHANGED td_exit_status
    /\ user_i' = 1
    /\ UNCHANGED <<arguments, dscl, files, cmd_i, td_launch_agent_dict, events,
                   at_start>>

\* Lines 372-385: the record of the user is read, and a record that lists
\* LoginWindow moves the service target (and arguments.agent_domain) to
\* loginwindow.
ReadRecord ==
    /\ td_pc = "read_record"
    /\ LET user == mobile_users[user_i]
           file == files[user.launch_agent_file.text]
           dict == IF file.exists THEN readPlist(file.content) ELSE <<>>
           session_types == DictGet(dict, "LimitLoadToSessionType", <<>>)
       IN  IF file.exists /\ file.content = Truncated
           THEN TdRaise /\ UNCHANGED <<arguments, mobile_users, td_launch_agent_dict, cmd_i>>
           ELSE /\ td_launch_agent_dict' = dict
                /\ IF "LoginWindow" \in Range(session_types)
                   THEN /\ arguments' = [arguments EXCEPT !.agent_domain = "loginwindow"]
                        /\ mobile_users' = [mobile_users EXCEPT ![user_i].service_target =
                                               Str("loginwindow/" \o arguments.agent_name)]
                   ELSE UNCHANGED <<arguments, mobile_users>>
                /\ cmd_i' = 1
                /\ td_pc' = "commands"
                /\ UNCHANGED td_exit_status
    /\ UNCHANGED <<dscl, files, user_i, events, at_start>>

\* cmd_list, by the launchctl subcommand.
cmd_list == <<"kill -15", "bootout", "disable">>

\* Command stopping the inner loop at the first command that fails.
RunCommand_stopsAtFailure ==
    /\ td_pc = "commands"
    /\ \E ok \in BOOLEAN :
        /\ events' = Append(events, [kind |-> cmd_list[cmd_i],
                                     target |-> mobile_users[user_i].service_target.text,
                                     user |-> user_i, ok |-> ok])
        /\ IF cmd_i = Len(cmd_list) \/ ~ok
           THEN td_pc' = "delete" /\ UNCHANGED cmd_i
           ELSE cmd_i' = cmd_i + 1 /\ UNCHANGED td_pc
    /\ UNCHANGED <<arguments, dscl, files, mobile_users, user_i, td_launch_agent_dict,
                   at_start, td_exit_status>>

\* Lines 394-401: one pass of the inner loop.  Popen(...).communicate() returns
\* whatever the command's exit status is, so the loop always goes on.
RunCommand ==
    /\ td_pc = "commands"
    /\ \E ok \in BOOLEAN :
        /\ events' = Append(events, [kind |-> cmd_list[cmd_i],
                                     target |-> mobile_users[user_i].service_target.text,
                                     user |-> user_i, ok |-> ok])
        /\ IF cmd_i = Len(cmd_list)
           THEN td_pc' = "delete" /\ UNCHANGED cmd_i
           ELSE cmd_i' = cmd_i + 1 /\ UNCHANGED td_pc
    /\ UNCHANGED <<arguments, dscl, files, mobile_users, user_i, td_launch_agent_dict,
                   at_start, td_exit_status>>

\* Lines 403-405, and the step of the outer loop to the next user.
DeleteRecord ==
    /\ td_pc = "delete"
    /\ LET path == mobile_users[user_i].launch_agent_file.text
       IN  IF files[path].exists
           THEN /\ files' = [files EXCEPT ![path] = [exists |-> FALSE, content |-> Truncated]]
                /\ events' = Append(events, [kind |-> "unlink", target |-> path,
                                             user |-> user_i, ok |-> TRUE])
           ELSE UNCHANGED <<files, events>>
    /\ user_i' = user_i + 1
    /\ td_pc' = IF user_i = Len(mobile_users) THEN "exit" ELSE "read_record"
    /\ UNCHANGED <<arguments, dscl, mobile_users, cmd_i, td_launch_agent_dict,
                   at_start, td_exit_status>>

\* Lines 407-408: sys.exit(0).
TdExit ==
    /\ td_pc = "exit"
    /\ td_pc' = "exited"
    /\ td_exit_status' = 0
    /\ UNCHANGED <<arguments, dscl, files, mobile_users, user_i, cmd_i,
                   td_launch_agent_dict, events, at_start>>

agent_name == launch_agent_label

\* The paths a record of the agent can be at.
RecordPaths ==
    {SystemRecordPath(agent_name), "/tmp/agents/" \o agent_name \o ".plist"}
        \cup {"/Users/" \o ShortName(i) \o "/Library/LaunchAgents/" \o agent_name \o ".plist"
                : i \in 1..MaxUsers}

NoRecord == [exists |-> FALSE, content |-> Truncated]

RecordFiles ==
    {NoRecord} \cup
    [exists : {TRUE},
     content : {writePlist(launch_agent_dict), writePlist(aqua_agent_dict),
                writePlist(unscoped_agent_dict), Truncated}]

TdIdle ==
    /\ td_pc = "idle"
    /\ arguments = [agent_name |-> agent_name, agent_domain |-> "system",
                    agent_directory |-> "/Library/LaunchAgents"]
    /\ dscl = [listing |-> <<"root">>, readable |-> {"root"}]
    /\ files = [path \in RecordPaths |-> NoRecord]
    /\ mobile_users = <<>>
    /\ user_i = 1
    /\ cmd_i = 1
    /\ td_launch_agent_dict = <<>>
    /\ events = <<>>
    /\ at_start = [files |-> files, arguments |-> arguments]
    /\ td_exit_status = -1

\* The tool is started with --agent-name and any domain and directory, on a
\* machine with any accounts and any record files.
TdStart ==
    /\ td_pc = "build_targets"
    /\ arguments \in [agent_name : {agent_name},
                      agent_domain : {"system", "System", "gui"},
                      agent_directory : {"/Library/LaunchAgents", "/tmp/agents"}]
    /\ \E n \in 0..MaxUsers : \E readable \in SUBSET {ShortName(i) : i \in 1..n} :
          dscl = [listing  |-> <<"root">> \o [i \in 1..n |-> ShortName(i)],
                  readable |-> {"root"} \cup readable]
    /\ files \in [RecordPaths -> RecordFiles]
    /\ \A path \in RecordPaths \ {SystemRecordPath(agent_name)} :
          files[path] \in {NoRecord, [exists |-> TRUE, content |-> writePlist(launch_agent_dict)]}
    /\ mobile_users = <<>>
    /\ user_i = 1
    /\ cmd_i = 1
    /\ td_launch_agent_dict = <<>>
    /\ events = <<>>
    /\ at_start = [files |-> files, arguments |-> arguments]
    /\ td_exit_status = -1

----------------------------------------------------------------------------
(* parseLineAttr_ on lines built from parts *)

\* The keys, the values and the attributes without "=" a directive block is
\* made of here.
ParseKeys == { <<"c","o","l","o","r">>, <<"C","O","L","O","R">>, <<"f","o","n","t">> }

ParseValues == { <<"R","e","d">>, <<"w","h","i","t","e">>, <<"b","o","g","u","s">> }

ParseAttrs ==
    [pair : {TRUE}, key : ParseKeys, value : ParseValues]
        \cup {[pair |-> FALSE, key |-> <<"b","o","l","d">>, value |-> <<>>]}

\* What follows the block: nothing, plain text, a closing brace, another block.
ParseRests ==
    { <<>>, <<" ","h","i">>, <<"a","}","b">>,
      <<"%","{","c","o","l","o","r","=","b","l","u","e","}","x">> }

\* The parts of a line: what precedes "%{", the attributes, the whitespace
\* around every key and value, whether "}" closes the block, and the rest.
ParseInputs ==
    [lead   : { <<>>, <<" ">>, <<"x">> },
     attrs  : UNION { [1..n -> ParseAttrs] : n \in 0..MaxAttrs },
     pad    : { <<>>, <<" ">> },
     closed : BOOLEAN,
     rest   : ParseRests]

AttrText(a, pad) ==
    IF a.pair THEN pad \o a.key \o pad \o <<"=">> \o pad \o a.value \o pad
    ELSE pad \o a.key \o pad

RECURSIVE BlockText(_, _)
BlockText(attrs, pad) ==
    IF attrs = <<>> THEN <<>>
    ELSE IF Len(attrs) = 1 THEN AttrText(attrs[1], pad)
    ELSE AttrText(attrs[1], pad) \o <<",">> \o BlockText(Tail(attrs), pad)

\* The line the parts make.
LineOf(in) ==
    in.lead \o <<"%", "{">> \o BlockText(in.attrs, in.pad)
        \o (IF in.closed THEN <<"}">> ELSE <<>>) \o in.rest

NotParsed == [done |-> FALSE, text |-> <<>>, color |-> <<>>]

\* One call of parseLineAttr_ on the line.
ParseLine ==
    /\ ~parse_out.done
    /\ parse_out' = [done  |-> TRUE,
                     text  |-> parseLineAttr_(LineOf(parse_in)).text,
                     color |-> parseLineAttr_(LineOf(parse_in)).color]
    /\ UNCHANGED parse_in

ParseStart ==
    /\ parse_in \in ParseInputs
    /\ parse_out = NotParsed

ParseIdle ==
    /\ parse_in = [lead |-> <<>>, attrs |-> <<>>, pad |-> <<>>, closed |-> FALSE,
                   rest |-> <<>>]
    /\ parse_out = NotParsed

----------------------------------------------------------------------------
(* Specifications *)

InitLog == LogStart /\ ApplyIdle /\ TdIdle /\ ParseIdle

\* The watcher as the program runs it: one watch-start, then the timer.
NextLog ==
    \/ applicationDidFinishLaunching_ /\ UNCHANGED <<applyVars, tdVars, parseVars>>
    \/ TimerFired /\ UNCHANGED <<applyVars, tdVars, parseVars>>

SpecLog == InitLog /\ [][NextLog]_vars

\* The watcher's objects driven by any caller: watch-starts at any time.
NextLogApi ==
    \/ WatchAgain /\ UNCHANGED <<applyVars, tdVars, parseVars>>
    \/ StopWatching /\ UNCHANGED <<applyVars, tdVars, parseVars>>
    \/ TimerFired /\ UNCHANGED <<applyVars, tdVars, parseVars>>

InitLogApi == ApiStart /\ ApplyIdle /\ TdIdle /\ ParseIdle

SpecLogApi == InitLogApi /\ [][NextLogApi]_vars

InitSnapshot == SnapshotStart /\ ApplyIdle /\ TdIdle /\ ParseIdle

\* The watcher as the program runs it, on any system.
SpecSnapshot == InitSnapshot /\ [][NextLog]_vars

InitApply == ApplyStart /\ LogIdle /\ TdIdle /\ ParseIdle

\* Runs of the reconciler in a row; the process can be killed at any statement.
NextApply ==
    \/ StartRun /\ UNCHANGED <<logVars, tdVars, parseVars>>
    \/ ReadAgent /\ UNCHANGED <<logVars, tdVars, parseVars>>
    \/ CompareAgent /\ UNCHANGED <<logVars, tdVars, parseVars>>
    \/ OpenAgent /\ UNCHANGED <<logVars, tdVars, parseVars>>
    \/ WriteAgent /\ UNCHANGED <<logVars, tdVars, parseVars>>
    \/ LchownAgent /\ UNCHANGED <<logVars, tdVars, parseVars>>
    \/ ChmodAgent /\ UNCHANGED <<logVars, tdVars, parseVars>>
    \/ ReadScript /\ UNCHANGED <<logVars, tdVars, parseVars>>
    \/ CompareScript /\ UNCHANGED <<logVars, tdVars, parseVars>>
    \/ MakeDirs /\ UNCHANGED <<logVars, tdVars, parseVars>>
    \/ WriteScript /\ UNCHANGED <<logVars, tdVars, parseVars>>
    \/ LchownScript /\ UNCHANGED <<logVars, tdVars, parseVars>>
    \/ ChmodAfterScript /\ UNCHANGED <<logVars, tdVars, parseVars>>
    \/ LaunchctlLoop /\ UNCHANGED <<logVars, tdVars, parseVars>>
    \/ Killed /\ UNCHANGED <<logVars, tdVars, parseVars>>

SpecApply == InitApply /\ [][NextApply]_vars

InitTeardown == TdStart /\ LogIdle /\ ApplyIdle /\ ParseIdle

\* One run of the teardown tool.
NextTeardown ==
    \/ BuildTargets /\ UNCHANGED <<logVars, applyVars, parseVars>>
    \/ ReadRecord /\ UNCHANGED <<logVars, applyVars, parseVars>>
    \/ RunCommand /\ UNCHANGED <<logVars, applyVars, parseVars>>
    \/ DeleteRecord /\ UNCHANGED <<logVars, applyVars, parseVars>>
    \/ TdExit /\ UNCHANGED <<logVars, applyVars, parseVars>>

SpecTeardown == InitTeardown /\ [][NextTeardown]_vars

InitParse == ParseStart /\ LogIdle /\ ApplyIdle /\ TdIdle

\* parseLineAttr_ called once on any line.
NextParse == ParseLine /\ UNCHANGED <<logVars, applyVars, tdVars>>

SpecParse == InitParse /\ [][NextParse]_vars

----------------------------------------------------------------------------
(* Claims about the line assembler and the store *)

EmptySource == [data |-> <<>>, color |-> <<>>, partial |-> FALSE, raised |-> FALSE]

\* C1: chunking independence.  When the reads of a watch that started on an
\* empty store have consumed the whole file, the entries (text, color) and the
\* partial flag are those of one refreshLog over the whole file.
C1_ChunkingIndependence ==
    (file_handle.open /\ file_handle.offset = Len(fileBytes)) =>
        LET one == refreshLog(EmptySource, fileBytes)
        IN  /\ log_file_data = one.data
            /\ log_file_color = one.color
            /\ last_line_is_partial = one.partial

C9_CountAfterClear ==
    watchStarts >= 1 => lineCount(Source) = NumLogicalLines(delivered)

\* C10: after a segment arrived while last_line_is_partial was set, the last
\* entry is what parseLineAttr_ gives for the raw text of its logical line.
C10_ContinuationParsesRawLine ==
    (lastRead.some /\ lastRead.valid /\ lastRead.partialBefore
        /\ log_file_data # <<>>) =>
        LET p == parseLineAttr_(LastLineRaw(delivered))
        IN  /\ log_file_data[Len(log_file_data)] = p.text
            /\ log_file_color[Len(log_file_color)] = p.color

\* C11: a refresh that is not a watch-start keeps every entry but the last
\* (text, color, position), replaces the last entry only if
\* last_line_is_partial was set before it, and never shortens the store.
C11_PrefixStable ==
    [][ watchStarts' = watchStarts =>
            LET n == Len(log_file_data)
            IN  /\ Len(log_file_data') >= n
                /\ \A i \in 1..(n - 1) :
                        /\ log_file_data'[i] = log_file_data[i]
                        /\ log_file_color'[i] = log_file_color[i]
                /\ (n >= 1 /\ ~last_line_is_partial) =>
                        /\ log_file_data'[n] = log_file_data[n]
                        /\ log_file_color'[n] = log_file_color[n] ]_vars

\* C11, its case: a timer-driven refresh found two entries or more, the last
\* one partial, and continued it.
C11_Witness ==
    /\ lastRead.some /\ lastRead.valid /\ lastRead.partialBefore
    /\ lastRead.countBefore >= 2
    /\ Len(log_file_data) = lastRead.countBefore
    /\ Len(log_file_data[Len(log_file_data)]) >= 2

\* C12: once a refresh cycle has run, each of the three views shows the
\* looked-up value or "Unknown", no lookup has let an exception out, and the
\* timer that drives the later cycles is scheduled.
C12_LookupsFaultTolerant ==
    watchStarts >= 1 =>
        /\ computer_name = (IF sysinfo.computername = Failure THEN Unknown
                            ELSE sysinfo.computername)
        /\ jamf_command = (IF sysinfo.pgrep = Failure THEN Unknown ELSE sysinfo.pgrep)
        /\ network \in {UnknownNetwork, get_network_info.value}
        /\ ~lastRead.lookupRaised
        /\ update_timer

\* C13: after a cycle that reached the lookups, with the dynamic store
\* answering, the network view lists every interface besides lo0 that has an
\* IPv4 state, with its address and BSD name, and with name and MAC address
\* when a hardware interface matches; it does not show "Unknown".
C13_BestEffortJoin ==
    (watchStarts >= 1 /\ lastRead.valid /\ sysinfo.store = "ok") =>
        /\ ~network.unknown
        /\ \A i \in sysinfo.active :
            \E n \in 1..Len(network.lines) :
                /\ network.lines[n].interface = i
                /\ network.lines[n].address = Address(i)
                /\ \A h \in Range(copiedInterfaces) :
                        h.bsdName = i => /\ network.lines[n].name = h.name
                                         /\ network.lines[n].mac = h.mac

\* C14: a timer-driven refresh that reads no bytes leaves the texts, the
\* colors and the partial flag as they were and calls neither reloadData nor
\* scrollRowToVisible_.
C14_EmptyReadNoChange ==
    [][ (watchStarts' = watchStarts /\ file_handle'.offset = file_handle.offset) =>
            /\ log_file_data' = log_file_data
            /\ log_file_color' = log_file_color
            /\ last_line_is_partial' = last_line_is_partial
            /\ ~lastRead'.rendered ]_vars

\* C14, its case: the last refresh read no bytes and found a store that was
\* not empty.
C14_Witness ==
    /\ ~lastRead.some
    /\ lastRead.countBefore >= 1
    /\ Len(log_file_data) = lastRead.countBefore
    /\ ~lastRead.rendered

\* C20: when stopWatching was entered last and no watch was started since, the
\* file handle is closed and cleared and the timer is invalidated and cleared.
C20_StopReleasesBoth ==
    lastStop # "none" => (~file_handle.open /\ ~update_timer)

\* C21: a watchLogFile_ call that gets past stopWatching leaves a fresh open
\* handle, has the timer scheduled only if its one immediate refresh ended,
\* and found at that first read a store with no entry, no color and no
\* partial-line flag from the watch before.
C21_WatchStartOrdering ==
    [][ (watchStarts' = watchStarts + 1 /\ lastStop' = "none") =>
            /\ file_handle'.open
            /\ (update_timer' => (lastRead'.valid /\ ~lastRead'.lookupRaised))
            /\ lastRead'.countBefore = 0
            /\ lastRead'.colorsBefore = 0
            /\ ~lastRead'.partialBefore ]_vars

\* The logical lines of a text: what stands between its line feeds.
LogicalLines(text) ==
    LET parts == Split(text, "\n")
    IN  IF text = <<>> \/ EndsWithLF(text)
        THEN SubSeq(parts, 1, Len(parts) - 1) ELSE parts

\* C22: the text array and the color array have the same length, and the
\* color at an index is the color parseLineAttr_ gives the logical line there.
C22_ColorForEveryRow ==
    /\ Len(log_file_color) = Len(log_file_data)
    /\ \A i \in 1..Len(log_file_data) :
            i <= Len(LogicalLines(delivered)) =>
                log_file_color[i] = parseLineAttr_(LogicalLines(delivered)[i]).color

----------------------------------------------------------------------------
(* Claims about the parser *)

\* The color tag the palette gives a value of ParseValues.
ClaimedTag(value) ==
    IF value = <<"R","e","d">> THEN <<"r","e","d">>
    ELSE IF value = <<"w","h","i","t","e">> THEN <<"l","i","g","h","t","g","r","a","y">>
    ELSE <<"b","l","a","c","k">>

\* The tags of the attributes whose key is color in any case.
ClaimedColors(attrs) ==
    {ClaimedTag(a.value) : a \in {b \in Range(attrs) :
        b.pair /\ b.key \in {<<"c","o","l","o","r">>, <<"C","O","L","O","R">>}}}

\* C15: for a line that starts with a closed directive block the parser
\* returns the text after the closing brace and the color of the key color,
\* whatever the case and the whitespace; white gives lightgray, a value
\* outside the palette or no color key gives black, other keys change nothing.
C15_DirectiveParsed ==
    (parse_out.done /\ parse_in.lead = <<>> /\ parse_in.closed) =>
        /\ parse_out.text = parse_in.rest
        /\ parse_out.color \in (IF ClaimedColors(parse_in.attrs) = {}
                                THEN {<<"b","l","a","c","k">>}
                                ELSE ClaimedColors(parse_in.attrs))

\* C15, its case: COLOR = white with whitespace around it, next to another key.
C15_Witness ==
    /\ parse_out.done /\ parse_in.lead = <<>> /\ parse_in.closed
    /\ parse_in.pad = <<" ">>
    /\ parse_in.attrs = << [pair |-> TRUE, key |-> <<"f","o","n","t">>,
                            value |-> <<"R","e","d">>],
                           [pair |-> TRUE, key |-> <<"C","O","L","O","R">>,
                            value |-> <<"w","h","i","t","e">>] >>
    /\ parse_in.rest = <<" ","h","i">>
    /\ parse_out.text = <<" ","h","i">>
    /\ parse_out.color = <<"l","i","g","h","t","g","r","a","y">>

\* C16: a line that does not start with %{, or that starts with it and has no
\* closing brace, is returned as it is, with black.
C16_NoDirectiveUnchanged ==
    (parse_out.done /\ (parse_in.lead # <<>>
                        \/ (~parse_in.closed /\ "}" \notin Range(parse_in.rest)))) =>
        /\ parse_out.text = LineOf(parse_in)
        /\ parse_out.color = <<"b","l","a","c","k">>

\* C16, its case: a block with a color and no closing brace.
C16_Witness ==
    /\ parse_out.done /\ parse_in.lead = <<>> /\ ~parse_in.closed
    /\ parse_in.attrs = << [pair |-> TRUE, key |-> <<"c","o","l","o","r">>,
                            value |-> <<"R","e","d">>] >>
    /\ parse_in.rest = <<" ","h","i">>
    /\ Len(parse_out.text) = Len(parse_in.rest) + 11
    /\ parse_out.color = <<"b","l","a","c","k">>

\* C17: of a line %{A}rest the parser returns exactly rest, later blocks and
\* closing braces included, and the color it returns for %{A} alone.
C17_FirstBlockOnly ==
    (parse_out.done /\ parse_in.lead = <<>> /\ parse_in.closed) =>
        /\ parse_out.text = parse_in.rest
        /\ parse_out.color =
            parseLineAttr_(<<"%", "{">> \o BlockText(parse_in.attrs, parse_in.pad)
                                \o <<"}">>).color

\* C17, its case: the rest holds a second block with another color.
C17_Witness ==
    /\ parse_out.done /\ parse_in.lead = <<>> /\ parse_in.closed
    /\ parse_in.attrs = << [pair |-> TRUE, key |-> <<"c","o","l","o","r">>,
                            value |-> <<"R","e","d">>] >>
    /\ parse_in.rest = <<"%","{","c","o","l","o","r","=","b","l","u","e","}","x">>
    /\ parse_out.text = parse_in.rest
    /\ parse_out.color = <<"r","e","d">>

----------------------------------------------------------------------------
(* Claims about the reconciler *)

\* The run that started last has ended, and no run was killed.
RunEnded == pc = "exited" /\ killed_at = ""

PrivilegedAndMode644 == launch_agent_file.owner = root /\ launch_agent_file.mode = "0644"

\* C2: two runs in a row write the descriptor once, in the first run (when it
\* found no equal descriptor), and not in the second; and a run that took the
\* no-op branch for the descriptor leaves the file's owner and mode as they
\* were when the run started.
C2_ApplyIdempotent ==
    RunEnded =>
        /\ runs = 2 =>
            /\ rewrites[2] = 0
            /\ (~run_start[1].exists
                    \/ run_start[1].content # writePlist(launch_agent_dict))
                => rewrites[1] = 1
        /\ existing_launch_agent = Value(launch_agent_dict) =>
            /\ launch_agent_file.owner = run_start[runs].owner
            /\ launch_agent_file.mode = run_start[runs].mode

\* C3: a run that started with no descriptor file ends with the desired
\* descriptor on disk, owned by root with mode 0644, and with install, enable
\* and restart issued.
C3_AbsentToInstalled ==
    (RunEnded /\ ~run_start[runs].exists) =>
        /\ launch_agent_file.exists
        /\ launch_agent_file.content = writePlist(launch_agent_dict)
        /\ PrivilegedAndMode644
        /\ issued = launchctl_list

\* C4: every run issues bootstrap, enable and kickstart -k, in that order, and
\* ends with exit status 0.
C4_ThreeCommandsThenExitZero ==
    RunEnded => (issued = launchctl_list /\ exit_status = 0)

\* C5: a crash between the steps of the rewrite leaves no descriptor file,
\* complete or half-written, with an owner other than root or a mode other
\* than 0644.
C5_RewriteAtomic ==
    (pc = "exited" /\ exit_status = 137
        /\ killed_at \in {"write_agent", "lchown_agent", "chmod_agent"}) =>
        (launch_agent_file.exists => PrivilegedAndMode644)

\* The statements of the script reconciliation, lines 681-712.
ScriptStatements ==
    {"read_script", "compare_script", "makedirs", "write_script", "lchown_script",
     "chmod_after_script"}

\* C23: no statement of the script reconciliation, in the rewrite branch or
\* in the no-op branch, changes the descriptor file's content, owner or mode.
C23_ScriptReconciliationFrame ==
    [][ (pc \in ScriptStatements) => (launch_agent_file' = launch_agent_file) ]_vars

----------------------------------------------------------------------------
(* Claims about the teardown tool *)

\* The kinds and targets of the commands run for the user at index i.
CommandsOf(i) ==
    LET ev == SelectSeq(events, LAMBDA e : e.user = i /\ e.kind # "unlink")
    IN  [j \in 1..Len(ev) |-> <<ev[j].kind, ev[j].target>>]

\* The kinds of everything done for the user at index i, unlink included.
KindsOf(i) ==
    LET ev == SelectSeq(events, LAMBDA e : e.user = i)
    IN  [j \in 1..Len(ev) |-> ev[j].kind]

\* The on-disk record of the account at index i when the tool started.
AccountRecord(i) ==
    LET name == at_start.arguments.agent_name
    IN  at_start.files[
            IF StrLower(at_start.arguments.agent_domain) = "system"
            THEN SystemRecordPath(name)
            ELSE "/Users/" \o mobile_users[i].shortname \o "/Library/LaunchAgents/"
                    \o name \o ".plist"]

\* The target the claim gives the account at index i.
ClaimedTarget(i) ==
    LET name   == at_start.arguments.agent_name
        domain == at_start.arguments.agent_domain
        rec    == AccountRecord(i)
    IN  IF rec.exists /\ "LoginWindow" \in
              Range(DictGet(readPlist(rec.content), "LimitLoadToSessionType", <<>>))
        THEN "loginwindow/" \o name
        ELSE IF StrLower(domain) = "system" THEN "system/" \o name
        ELSE domain \o "/" \o DsclRead(mobile_users[i].shortname).UniqueID \o "/" \o name

\* C6: when the tool has ended, kill, bootout and disable were issued for every
\* resolved account against loginwindow/<agentName> if its record lists
\* LoginWindow and against the target of the requested domain otherwise
\* (records in the default directory, readable accounts and records).
C6_ScopeOverride ==
    (td_pc = "exited" /\ at_start.arguments.agent_directory = "/Library/LaunchAgents") =>
        \A i \in 1..Len(mobile_users) :
            (/\ mobile_users[i].shortname \in dscl.readable
             /\ ~(AccountRecord(i).exists /\ AccountRecord(i).content = Truncated)) =>
                CommandsOf(i) = [j \in 1..Len(cmd_list) |-> <<cmd_list[j], ClaimedTarget(i)>>]

\* C7: for each resolved target the tool does kill -15, bootout, disable and
\* then unlinks the record file if it was there, in that order; a command that
\* fails stops nothing after it, and the file is gone when the target is done.
C7_TeardownOrder ==
    \A i \in 1..Len(mobile_users) :
        mobile_users[i].launch_agent_file.type = "str" =>
            LET path == mobile_users[i].launch_agent_file.text
                full == cmd_list \o (IF at_start.files[path].exists
                                     THEN <<"unlink">> ELSE <<>>)
            IN  /\ Len(KindsOf(i)) <= Len(full)
                /\ KindsOf(i) = SubSeq(full, 1, Len(KindsOf(i)))
                /\ (i = user_i /\ td_pc = "commands") => Len(KindsOf(i)) = cmd_i - 1
                /\ (i = user_i /\ td_pc = "delete") => KindsOf(i) = cmd_list
                /\ i < user_i => (KindsOf(i) = full /\ ~files[path].exists)

\* C7, its case: a target whose first command failed and whose record file was
\* there has been torn down to the end.
C7_Witness ==
    /\ td_pc = "exited" /\ td_exit_status = 0
    /\ Len(events) = Len(cmd_list) + 1
    /\ ~events[1].ok /\ ~events[2].ok
    /\ events[Len(events)].kind = "unlink"
    /\ ~files[events[Len(events)].target].exists

\* C18: in the system domain the record that is read for the login-window
\* check and deleted afterwards is <agent_directory>/<agent_name>.plist: when
\* the tool has ended well that file is gone, nothing else was unlinked, and
\* the commands went to loginwindow/<agent_name> exactly if it listed
\* LoginWindow.
C18_RecordInAgentDirectory ==
    (/\ td_pc = "exited" /\ td_exit_status = 0
     /\ StrLower(at_start.arguments.agent_domain) = "system") =>
        LET name == at_start.arguments.agent_name
            path == at_start.arguments.agent_directory \o "/" \o name \o ".plist"
            rec  == at_start.files[path]
            target == IF rec.exists /\ "LoginWindow" \in
                            Range(DictGet(readPlist(rec.content),
                                          "LimitLoadToSessionType", <<>>))
                      THEN "loginwindow/" \o name
                      ELSE "system/" \o name
        IN  /\ ~files[path].exists
            /\ \A n \in 1..Len(events) :
                    events[n].target = (IF events[n].kind = "unlink" THEN path ELSE target)

\* C19: whatever the domain, the accounts, the record files (well-formed when
\* present) and the commands that fail, the tool ends with exit status 0.
C19_ExitsZero ==
    (/\ td_pc = "exited"
     /\ \A path \in DOMAIN at_start.files :
            ~(at_start.files[path].exists /\ at_start.files[path].content = Truncated)) =>
        td_exit_status = 0

====
